---- MODULE Spec2Model ----
(***************************************************************************)
(* lines_u8: reading a buffered byte source line by line, where a line is  *)
(* terminated by \n, \r or \r\n (src/src/lib.rs).                          *)
(*                                                                         *)
(* The byte source is a std::io::BufRead: fill_buf shows the unconsumed    *)
(* rest of its buffer and refills from the underlying supply only when the *)
(* buffer is empty; consume(n) advances past n bytes.  The supply hands    *)
(* over the input in chunks (the refill windows) fixed by the set `cuts`   *)
(* of chunk end offsets.                                                   *)
(*                                                                         *)
(* One step of the model is one round of the loop of read_line_u8          *)
(* (fill_buf, scan, consume, test for return), or a failed fill_buf.       *)
(***************************************************************************)
EXTENDS Integers, Sequences, FiniteSets, TLC

\* ---------------------------------------------------------------- bounds
MaxLen == 4          \* longest input
MaxInterrupts == 1   \* Interrupted fetches within one call
MaxErrors == 1       \* fatal fetch failures in one behaviour
MaxCalls == MaxLen + 1   \* calls of read_line_u8 in one behaviour

\* ----------------------------------------------------------------- bytes
NL == 10             \* b'\n'
CR == 13             \* b'\r'
Payload == {97}      \* every other byte behaves alike; b'a' stands for them
Bytes == Payload \cup {NL, CR}

VARIABLES
  input,       \* all bytes the underlying supply will ever deliver
  cuts,        \* end offsets of the supply's chunks (refill windows)
  pos,         \* BufRead: number of bytes consumed so far
  wend,        \* BufRead: end offset of the buffered chunk; buffer = input[pos+1..wend]
  eof,         \* BufRead: a fetch has already returned the empty window
  pc,          \* "idle" between calls, "loop" inside read_line_u8
  caller,      \* who owns the source: "direct" calls of read_line_u8, or
               \* "iter", the LinesIter that lines_u8(self) moved it into
  read,        \* read_line_u8: local `read`
  buf,         \* the accumulator `buf` of the current/last call
  prior,       \* contents of the accumulator when the current/last call began
  start,       \* pos when the current/last call began
  interrupts,  \* Interrupted fetches seen by the current/last call
  expect,      \* what the current/last call returns if none of its fetches fails
  ret,         \* result of the last returned call
  item,        \* value returned by the last LinesIter::next
  ncalls,      \* number of returned calls of read_line_u8
  nerrs,       \* number of fatal fetch failures so far
  clean,       \* every call so far began with an empty accumulator and returned Ok
  pulls,       \* number of returned LinesIter::next
  yielded,     \* number of Some(Ok(_)) items yielded
  nonzero,     \* number of iterator scans that returned Ok(n), n > 0
  exhausted    \* LinesIter::next has returned None

vars == <<input, cuts, pos, wend, eof, pc, caller, read, buf, prior, start,
          interrupts, expect, ret, item, ncalls, nerrs, clean, pulls, yielded,
          nonzero, exhausted>>

srcvars == <<input, cuts, pos, wend, eof>>
histvars == <<ret, item, ncalls, clean, pulls, yielded, nonzero, exhausted>>

\* ------------------------------------------------------- Option<usize>
None == <<>>
Some(i) == <<i>>
IsSome(o) == o # None

\* memchr::memchr(b, s): 0-based index of the first b in s
memchr(b, s) ==
  IF \E i \in 1..Len(s) : s[i] = b
  THEN Some((CHOOSE i \in 1..Len(s) : s[i] = b /\ \A j \in 1..(i-1) : s[j] # b) - 1)
  ELSE None

\* &available[..n]
Prefix(s, n) == SubSeq(s, 1, n)

\* ------------------------------------------------- one round of the loop
\* Each arm of the match yields (done, used) and the bytes it appends to buf.

\* "\n": arms `(Some(nl_idx), Some(cr_idx)) if nl_idx < cr_idx` and
\* `(Some(nl_idx), None)`
NlCaseKeepsNl(available, nl_idx) ==
  [done |-> TRUE, used |-> nl_idx, app |-> Prefix(available, nl_idx)]

NlCase(available, nl_idx) ==
  [done |-> TRUE, used |-> nl_idx + 1, app |-> Prefix(available, nl_idx)]

\* "\r\n": arm `(Some(nl_idx), Some(cr_idx)) if cr_idx == nl_idx - 1`
CrLfCaseKeepsCr(available, nl_idx) ==
  [done |-> TRUE, used |-> nl_idx + 1, app |-> Prefix(available, nl_idx)]

CrLfCase(available, nl_idx) ==
  [done |-> TRUE, used |-> nl_idx + 1, app |-> Prefix(available, nl_idx - 1)]

\* "\r" with a later, unrelated "\n": arm `(Some(_), Some(cr_idx))`
CrCaseKeepsCr(available, cr_idx) ==
  [done |-> TRUE, used |-> cr_idx + 1, app |-> Prefix(available, cr_idx + 1)]

CrCase(available, cr_idx) ==
  [done |-> TRUE, used |-> cr_idx + 1, app |-> Prefix(available, cr_idx)]

\* "\r" and no "\n" in the window: arm `(None, Some(cr_idx))`
LoneCrCaseNoSingle(available, cr_idx) ==
  IF Len(available) - 1 = cr_idx
    THEN [done |-> FALSE, used |-> cr_idx - 1, app |-> Prefix(available, cr_idx - 1)]
  ELSE [done |-> TRUE, used |-> cr_idx + 1, app |-> Prefix(available, cr_idx)]

LoneCrCase(available, cr_idx) ==
  IF Len(available) = 1
    THEN [done |-> TRUE, used |-> 1, app |-> Prefix(available, cr_idx)]
  ELSE IF Len(available) - 1 = cr_idx
    THEN [done |-> FALSE, used |-> cr_idx - 1, app |-> Prefix(available, cr_idx - 1)]
  ELSE [done |-> TRUE, used |-> cr_idx + 1, app |-> Prefix(available, cr_idx)]

\* neither in the window: arm `_`
PlainCaseStops(available) ==
  [done |-> TRUE, used |-> Len(available), app |-> available]

PlainCase(available) ==
  [done |-> FALSE, used |-> Len(available), app |-> available]

\* the match on (nl_idx, cr_idx); the arms are tried in the order written
Round(available) ==
  LET nl_idx == memchr(NL, available)
      cr_idx == memchr(CR, available)
  IN
  IF IsSome(nl_idx) /\ IsSome(cr_idx) /\ nl_idx[1] < cr_idx[1]
    THEN NlCase(available, nl_idx[1])
  ELSE IF IsSome(nl_idx) /\ ~IsSome(cr_idx)
    THEN NlCase(available, nl_idx[1])
  ELSE IF IsSome(nl_idx) /\ IsSome(cr_idx) /\ cr_idx[1] = nl_idx[1] - 1
    THEN CrLfCase(available, nl_idx[1])
  ELSE IF IsSome(nl_idx) /\ IsSome(cr_idx)
    THEN CrCase(available, cr_idx[1])
  ELSE IF IsSome(cr_idx)
    THEN LoneCrCase(available, cr_idx[1])
  ELSE PlainCase(available)

\* the usize subtractions <<a, b>> (for a - b) the match evaluates on a
\* window: `nl_idx - 1` in the guard and the body of the "\r\n" arm, which is
\* reached when both are found and the first arm's guard failed;
\* `available.len() - 1` and `cr_idx - 1` in the arm (None, Some(cr_idx))
Subtractions(available) ==
  LET nl_idx == memchr(NL, available)
      cr_idx == memchr(CR, available)
  IN (IF IsSome(nl_idx) /\ IsSome(cr_idx) /\ ~(nl_idx[1] < cr_idx[1])
      THEN {<<nl_idx[1], 1>>} ELSE {})
     \cup
     (IF ~IsSome(nl_idx) /\ IsSome(cr_idx) /\ Len(available) # 1
      THEN {<<Len(available), 1>>}
           \cup (IF Len(available) - 1 = cr_idx[1] THEN {<<cr_idx[1], 1>>} ELSE {})
      ELSE {})

\* `if done || used == 0 { return Ok(read) }`
Returns(r) == r.done \/ r.used = 0

\* ------------------------------------------------------ the byte source
\* end offset of the buffer after fill_buf: refill only when it is empty
\* (for a supply chunked at the offsets cts)
FillEndIn(cts, p, w) ==
  IF p = w /\ \E c \in cts : c > w
  THEN CHOOSE c \in cts : c > w /\ \A d \in cts : d > w => c <= d
  ELSE w

FillEndAt(p, w) == FillEndIn(cuts, p, w)

FillEnd == FillEndAt(pos, wend)

\* the window fill_buf returns
Available == SubSeq(input, pos + 1, FillEnd)

\* read_line_u8 when no fetch fails, on supply inp read up to p with the
\* buffer ending at w: the loop run to its return
\* (for a supply chunked at the offsets cts)
RECURSIVE ReadLineIn(_, _, _, _, _, _)
ReadLineIn(cts, inp, p, w, rd, b) ==
  LET e == FillEndIn(cts, p, w)
      r == Round(SubSeq(inp, p + 1, e))
  IN IF Returns(r)
     THEN [count |-> rd + r.used, buf |-> b \o r.app, pos |-> p + r.used, wend |-> e]
     ELSE ReadLineIn(cts, inp, p + r.used, e, rd + r.used, b \o r.app)

ReadLine(inp, p, w, rd, b) == ReadLineIn(cuts, inp, p, w, rd, b)

\* a fetch can fail only when it has to go to the underlying supply, and
\* not once end-of-stream has been reported
MayFail == pos = wend /\ ~eof

\* ------------------------------------------------------- LinesIter::next
\* the match on the scan's result: Ok(0) => None, Ok(_) => Some(Ok(line)),
\* Err(e) => Some(Err(e))
IterItemNeverEnds(r, line) ==
  IF r.kind = "ok" THEN [tag |-> "SomeOk", line |-> line]
  ELSE [tag |-> "SomeErr", line |-> <<>>]

IterItemByLine(r, line) ==
  IF r.kind = "ok" /\ line = <<>> THEN [tag |-> "None", line |-> <<>>]
  ELSE IF r.kind = "ok" THEN [tag |-> "SomeOk", line |-> line]
  ELSE [tag |-> "SomeErr", line |-> <<>>]

IterItem(r, line) ==
  IF r.kind = "ok" /\ r.count = 0 THEN [tag |-> "None", line |-> <<>>]
  ELSE IF r.kind = "ok" THEN [tag |-> "SomeOk", line |-> line]
  ELSE [tag |-> "SomeErr", line |-> <<>>]

\* bookkeeping when a call returns r with accumulator b
Return(r, b) ==
  /\ pc' = "idle"
  /\ ret' = r
  /\ ncalls' = ncalls + 1
  /\ clean' = (clean /\ r.kind = "ok" /\ prior = <<>>)
  /\ IF caller = "iter"
     THEN LET it == IterItem(r, b) IN
          /\ item' = it
          /\ pulls' = pulls + 1
          /\ yielded' = yielded + (IF it.tag = "SomeOk" THEN 1 ELSE 0)
          /\ nonzero' = nonzero + (IF r.kind = "ok" /\ r.count > 0 THEN 1 ELSE 0)
          /\ exhausted' = (exhausted \/ it.tag = "None")
     ELSE UNCHANGED <<item, pulls, yielded, nonzero, exhausted>>

\* ---------------------------------------------------------------- Init
Partitions(s) ==
  {c \in SUBSET (1..Len(s)) : Len(s) > 0 => Len(s) \in c}

Init ==
  /\ input \in UNION {[1..n -> Bytes] : n \in 0..MaxLen}
  /\ cuts \in Partitions(input)
  /\ pos = 0
  /\ wend = 0
  /\ eof = FALSE
  /\ pc = "idle"
  /\ caller \in {"direct", "iter"}
  /\ read = 0
  /\ buf = <<>>
  /\ prior = <<>>
  /\ start = 0
  /\ interrupts = 0
  /\ expect = [count |-> 0, buf |-> <<>>, pos |-> 0, wend |-> 0]
  /\ ret = [kind |-> "none", count |-> 0]
  /\ item = [tag |-> "none", line |-> <<>>]
  /\ ncalls = 0
  /\ nerrs = 0
  /\ clean = TRUE
  /\ pulls = 0
  /\ yielded = 0
  /\ nonzero = 0
  /\ exhausted = FALSE

\* -------------------------------------------------------------- actions
\* entry of read_line_u8 with accumulator b: `let mut read = 0;`
Enter(who, b) ==
  /\ pc = "idle"
  /\ ncalls < MaxCalls
  /\ caller = who
  /\ pc' = "loop"
  /\ read' = 0
  /\ buf' = b
  /\ prior' = b
  /\ start' = pos
  /\ interrupts' = 0
  /\ expect' = ReadLine(input, pos, wend, 0, b)
  /\ UNCHANGED <<srcvars, caller, histvars, nerrs>>

\* a direct call text.read_line_u8(&mut line) after line.clear()
CallCleared == Enter("direct", <<>>)

\* a direct call that reuses the accumulator without clearing it
CallReused == buf # <<>> /\ Enter("direct", buf)

\* LinesIter::next: `let mut line = vec![];` then the scan
IterNext == Enter("iter", <<>>)

\* one round: fill_buf succeeded; scan, extend buf, consume, maybe return
RoundStepOverwrites ==
  /\ pc = "loop"
  /\ LET r == Round(Available) IN
     /\ wend' = FillEnd
     /\ eof' = (eof \/ Available = <<>>)
     /\ buf' = r.app
     /\ pos' = pos + r.used
     /\ read' = read + r.used
     /\ IF Returns(r)
        THEN Return([kind |-> "ok", count |-> read + r.used], r.app)
        ELSE /\ pc' = "loop"
             /\ UNCHANGED histvars
  /\ UNCHANGED <<input, cuts, caller, prior, start, interrupts, expect, nerrs>>

RoundStepIgnoresZero ==
  /\ pc = "loop"
  /\ LET r == Round(Available) IN
     /\ wend' = FillEnd
     /\ eof' = (eof \/ Available = <<>>)
     /\ buf' = buf \o r.app
     /\ pos' = pos + r.used
     /\ read' = read + r.used
     /\ IF r.done
        THEN Return([kind |-> "ok", count |-> read + r.used], buf \o r.app)
        ELSE /\ pc' = "loop"
             /\ UNCHANGED histvars
  /\ UNCHANGED <<input, cuts, caller, prior, start, interrupts, expect, nerrs>>

RoundStep ==
  /\ pc = "loop"
  /\ LET r == Round(Available) IN
     /\ wend' = FillEnd
     /\ eof' = (eof \/ Available = <<>>)
     /\ buf' = buf \o r.app
     /\ pos' = pos + r.used
     /\ read' = read + r.used
     /\ IF Returns(r)
        THEN Return([kind |-> "ok", count |-> read + r.used], buf \o r.app)
        ELSE /\ pc' = "loop"
             /\ UNCHANGED histvars
  /\ UNCHANGED <<input, cuts, caller, prior, start, interrupts, expect, nerrs>>

\* fill_buf failed with ErrorKind::Interrupted: `continue`
FetchInterruptedSurfaces ==
  /\ pc = "loop"
  /\ MayFail
  /\ interrupts < MaxInterrupts
  /\ interrupts' = interrupts + 1
  /\ Return([kind |-> "err", count |-> 0], buf)
  /\ UNCHANGED <<srcvars, caller, read, buf, prior, start, expect, nerrs>>

FetchInterrupted ==
  /\ pc = "loop"
  /\ MayFail
  /\ interrupts < MaxInterrupts
  /\ interrupts' = interrupts + 1
  /\ UNCHANGED <<srcvars, pc, caller, read, buf, prior, start, expect, histvars, nerrs>>

\* fill_buf failed with any other error: `return Err(e)`
FetchFailedReturnsOk ==
  /\ pc = "loop"
  /\ MayFail
  /\ nerrs < MaxErrors
  /\ nerrs' = nerrs + 1
  /\ Return([kind |-> "ok", count |-> read], buf)
  /\ UNCHANGED <<srcvars, caller, read, buf, prior, start, interrupts, expect>>

FetchFailed ==
  /\ pc = "loop"
  /\ MayFail
  /\ nerrs < MaxErrors
  /\ nerrs' = nerrs + 1
  /\ Return([kind |-> "err", count |-> 0], buf)
  /\ UNCHANGED <<srcvars, caller, read, buf, prior, start, interrupts, expect>>

Next ==
  \/ CallCleared
  \/ CallReused
  \/ IterNext
  \/ RoundStep
  \/ FetchInterrupted
  \/ FetchFailed

Spec == Init /\ [][Next]_vars

\* ------------------------------------------- the scan under fair progress
\* a round would change the state: exactly ENABLED <<RoundStep>>_vars
RoundEnabled ==
  /\ pc = "loop"
  /\ LET r == Round(Available) IN
     \/ Returns(r) \/ r.used # 0 \/ r.app # <<>>
     \/ FillEnd # wend \/ (~eof /\ Available = <<>>)

EnabledAgrees == RoundEnabled <=> ENABLED <<RoundStep>>_vars

\* The scans of a LinesIter (the accumulator plays no part in the loop's
\* control flow).  The call runs on its caller's thread and fill_buf blocks
\* until it returns, so a round whose fetch succeeds is eventually executed;
\* fetches fail only finitely often (MaxInterrupts, MaxErrors).  The last
\* conjunct is WF_vars(RoundStep) written out with RoundEnabled for
\* ENABLED <<RoundStep>>_vars.
FairInit == Init /\ caller = "iter"

FairNext ==
  \/ IterNext
  \/ RoundStep
  \/ FetchInterrupted
  \/ FetchFailed

FairSpec ==
  /\ FairInit
  /\ [][FairNext]_vars
  /\ ([]<>(~RoundEnabled) \/ []<><<RoundStep>>_vars)

\* ======================================================================
\* Reference notions the claims are stated with
\* ======================================================================
IsTerm(b) == b = NL \/ b = CR

NoNl(s) == \A i \in 1..Len(s) : s[i] # NL
NoCr(s) == \A i \in 1..Len(s) : s[i] # CR

\* every terminator of s is a "\r\n" pair
CrLfOnly(s) ==
  /\ \A i \in 1..Len(s) : s[i] = CR => (i < Len(s) /\ s[i + 1] = NL)
  /\ \A i \in 1..Len(s) : s[i] = NL => (i > 1 /\ s[i - 1] = CR)

\* 1-based index of the first terminator byte of s after offset from, 0 if none
FirstTerm(s, from) ==
  IF \E i \in (from + 1)..Len(s) : IsTerm(s[i])
  THEN CHOOSE i \in (from + 1)..Len(s) :
         IsTerm(s[i]) /\ \A j \in (from + 1)..(i - 1) : ~IsTerm(s[j])
  ELSE 0

\* the lines of s: "\r\n", a lone "\n" and a lone "\r" each end one line;
\* count = payload length + terminator length (tlen, 0 for an unterminated tail)
RECURSIVE RefSplit(_)
RefSplit(s) ==
  IF s = <<>> THEN <<>>
  ELSE LET i == FirstTerm(s, 0) IN
       IF i = 0 THEN <<[line |-> s, count |-> Len(s), tlen |-> 0]>>
       ELSE LET tl == IF s[i] = CR /\ i < Len(s) /\ s[i + 1] = NL THEN 2 ELSE 1
            IN <<[line |-> SubSeq(s, 1, i - 1), count |-> i - 1 + tl, tlen |-> tl]>>
               \o RefSplit(SubSeq(s, i + tl, Len(s)))

\* the input ends in payload: its tail has no terminator
Unterminated(s) == s # <<>> /\ ~IsTerm(s[Len(s)])

\* the bytes after the last terminator of s
FinalPartial(s) ==
  LET T == {i \in 1..Len(s) : IsTerm(s[i])}
      last == IF T = {} THEN 0 ELSE CHOOSE i \in T : \A j \in T : j <= i
  IN SubSeq(s, last + 1, Len(s))

\* s with every "\r" replaced by "\n"
CrToNl(s) == [i \in 1..Len(s) |-> IF s[i] = CR THEN NL ELSE s[i]]

\* result of the k-th of k successive calls on supply inp, each with an
\* empty accumulator and no failed fetch, starting from position p
\* (for a supply chunked at the offsets cts)
RECURSIVE NthLineIn(_, _, _, _, _)
NthLineIn(cts, inp, p, w, k) ==
  LET r == ReadLineIn(cts, inp, p, w, 0, <<>>)
  IN IF k <= 1 THEN r ELSE NthLineIn(cts, inp, r.pos, r.wend, k - 1)

NthLine(inp, p, w, k) == NthLineIn(cuts, inp, p, w, k)

\* a call has just returned, and it and all calls before it began with an
\* empty accumulator and returned Ok
CleanReturn == pc = "idle" /\ ncalls > 0 /\ clean

\* the last returned call produced the ncalls-th line of the reference
\* splitter, or count 0 and nothing once the reference has no more lines
MatchesRef ==
  LET R == RefSplit(input) IN
  IF ncalls <= Len(R)
  THEN buf = R[ncalls].line /\ ret.count = R[ncalls].count
  ELSE buf = <<>> /\ ret.count = 0

\* some chunk boundary falls inside the bytes the last call consumed
SpansWindows == \E c \in cuts : start < c /\ c < pos

\* ======================================================================
\* Claims
\* ======================================================================

\* C1: on an input without "\n" (lines terminated by "\r" only), under every
\* partition into refill windows, each call with an empty accumulator
\* returns the bytes between terminators with count = payload length + 1,
\* exactly as the calls do on the same input with each "\r" replaced by "\n".
C1_CrLikeNl ==
  (CleanReturn /\ NoNl(input)) =>
    LET R == RefSplit(input)
        n == NthLine(CrToNl(input), 0, 0, ncalls)
    IN /\ buf = n.buf /\ ret.count = n.count
       /\ (ncalls <= Len(R) /\ R[ncalls].tlen = 1) =>
            (buf = R[ncalls].line /\ ret.count = Len(buf) + 1)

\* C2: a call returns Ok(0) only if the source was at end-of-stream when it
\* began (every byte of the input already consumed); it then has consumed
\* nothing and appended nothing.
C2_ZeroOnlyAtEof ==
  (pc = "idle" /\ ret.kind = "ok" /\ ret.count = 0) =>
    (start = Len(input) /\ pos = Len(input) /\ buf = prior)

\* C3: when the first terminator a scan meets is a "\r" that ends one refill
\* window with "\n" starting the next, the scan reports one boundary for the
\* pair: the line is the payload before the "\r" and the count is payload
\* length + 2, so no later scan yields an empty line for the "\n".
C3_PairNeverSplit ==
  LET t == FirstTerm(input, start) IN
  (/\ pc = "idle" /\ ncalls > 0 /\ ret.kind = "ok" /\ prior = <<>>
   /\ t # 0 /\ input[t] = CR /\ t \in cuts
   /\ t < Len(input) /\ input[t + 1] = NL)
  => (buf = SubSeq(input, start + 1, t - 1) /\ ret.count = (t - 1 - start) + 2)

\* C4: on an input without "\r" (lines terminated by "\n" only), under every
\* partition into refill windows, the k-th call with an empty accumulator
\* returns the k-th "\n"-terminated line and count = payload length + 1.
C4_NlOnly ==
  (CleanReturn /\ NoCr(input)) =>
    LET R == RefSplit(input) IN
    (ncalls <= Len(R) /\ R[ncalls].tlen = 1) =>
      (buf = R[ncalls].line /\ ret.count = Len(buf) + 1)

C4_Witness ==
  /\ CleanReturn /\ NoCr(input) /\ ncalls = 2
  /\ SpansWindows /\ Len(buf) = 2 /\ ret.count = 3

\* C5: when the whole input is visible as one window, successive calls with
\* a cleared accumulator return exactly the lines and counts of the
\* reference splitter, then count 0.
C5_SingleWindowMatchesRef ==
  (CleanReturn /\ Cardinality(cuts) <= 1) => MatchesRef

\* C6: on an input whose terminators are all "\r\n" pairs, under every
\* partition that keeps each pair inside one window, the k-th call with an
\* empty accumulator returns the bytes before the k-th "\r" and count =
\* payload length + 2, having consumed through the "\n".
PairsKept == \A c \in cuts : input[c] # CR

C6_CrLfInOneWindow ==
  (CleanReturn /\ CrLfOnly(input) /\ PairsKept) =>
    LET R == RefSplit(input) IN
    (ncalls <= Len(R) /\ R[ncalls].tlen = 2) =>
      (/\ buf = R[ncalls].line /\ ret.count = Len(buf) + 2
       /\ input[pos] = NL)

C6_Witness ==
  /\ CleanReturn /\ CrLfOnly(input) /\ PairsKept
  /\ SpansWindows /\ Len(buf) = 2 /\ ret.count = 4

\* C7: when the input ends without a terminator, under every partition, the
\* scan that consumes its last byte reaches end-of-stream and returns the
\* final partial content with count = its length > 0; a scan begun after
\* that returns 0 and leaves an empty accumulator empty.
C7_UnterminatedTail ==
  (CleanReturn /\ Unterminated(input) /\ pos = Len(input)) =>
    IF start < Len(input)
    THEN /\ eof
         /\ buf = FinalPartial(input)
         /\ ret.count = Len(buf) /\ ret.count > 0
    ELSE ret.count = 0 /\ buf = <<>>

\* the tail "aa" of "\naa" arrives in two windows; then one more scan
C7_Witness ==
  /\ CleanReturn /\ Unterminated(input) /\ pos = Len(input)
  /\ \E c \in cuts : Len(input) - Len(FinalPartial(input)) < c /\ c < Len(input)
  /\ Len(FinalPartial(input)) < Len(input)
  /\ ncalls = Len(RefSplit(input)) + 1 /\ ret.count = 0

\* C8: each pull of LinesIter::next runs one scan on a fresh empty
\* accumulator; it yields Some(Ok(line)) exactly when the scan returned a
\* count > 0 (also for an empty line) and None exactly when it returned 0,
\* so the items yielded are as many as the scans with a non-zero count.
C8_ItemPerNonZeroScan ==
  (pc = "idle" /\ caller = "iter" /\ pulls > 0) =>
    /\ pulls = ncalls
    /\ prior = <<>>
    /\ (item.tag = "SomeOk") <=> (ret.kind = "ok" /\ ret.count > 0)
    /\ (item.tag = "None") <=> (ret.kind = "ok" /\ ret.count = 0)
    /\ item.tag = "SomeOk" => item.line = buf
    /\ yielded = nonzero

\* two terminators back to back: the second pull yields an empty line
C8_Witness ==
  /\ pc = "idle" /\ caller = "iter" /\ yielded = 2
  /\ item = [tag |-> "SomeOk", line |-> <<>>]
  /\ start > 0 /\ IsTerm(input[start]) /\ IsTerm(input[start + 1])

\* C9: once LinesIter::next has returned None, every later pull returns None
\* and no later step consumes anything from the source.
C9_ExhaustedStays ==
  [][exhausted => (/\ pos' = pos
                   /\ exhausted'
                   /\ pulls' # pulls => item'.tag = "None")]_vars

\* at least two pulls have returned None
C9_Witness ==
  /\ pc = "idle" /\ caller = "iter" /\ exhausted
  /\ nerrs = 0 /\ pulls >= yielded + 2 /\ yielded > 0

\* C10: an Interrupted fetch is not returned as a failure, and it leaves the
\* source position, the running count and the accumulator as they were: at
\* every point of a scan the rest of the scan, run without failed fetches,
\* still gives the result the scan would have given with no interruption,
\* and that is the result an Ok return carries.
C10_InterruptedRetried ==
  /\ (pc = "idle" /\ ret.kind = "err") => nerrs > 0
  /\ pc = "loop" => ReadLine(input, pos, wend, read, buf) = expect
  /\ (pc = "idle" /\ ncalls > 0 /\ ret.kind = "ok") =>
       (ret.count = expect.count /\ buf = expect.buf /\ pos = expect.pos)

\* a scan over two windows returned Ok after an Interrupted fetch
C10_Witness ==
  /\ pc = "idle" /\ ret.kind = "ok" /\ interrupts > 0
  /\ SpansWindows /\ ret.count > 1 /\ buf # <<>>

\* the bytes the current/last call has appended to the accumulator
Appended == SubSeq(buf, Len(prior) + 1, Len(buf))

\* C11: a fetch that fails with a non-Interrupted error ends the call with
\* that error and no count; the failing round consumes nothing and appends
\* nothing, what earlier rounds consumed and appended stays; LinesIter::next
\* yields the failure as one Some(Err) item and does not yield the partial
\* line.
C11_FatalPropagates ==
  [][(/\ (nerrs' # nerrs) => (pc = "loop" /\ pc' = "idle" /\ ret'.kind = "err")
      /\ (pc = "loop" /\ pc' = "idle" /\ ret'.kind = "err") =>
          (/\ pos' = pos /\ wend' = wend /\ buf' = buf /\ read' = read
           /\ pos' = start + read
           /\ caller = "iter" =>
                (/\ item' = [tag |-> "SomeErr", line |-> <<>>]
                 /\ pulls' = pulls + 1 /\ yielded' = yielded)))]_vars

\* a pull failed after an earlier round of its scan had consumed a window
C11_Witness ==
  /\ pc = "idle" /\ caller = "iter" /\ ret.kind = "err"
  /\ item.tag = "SomeErr" /\ pos > start /\ buf # <<>> /\ yielded = 0

\* C12: read_line_u8 only appends: during and after a call, successful or
\* failed, the accumulator is its prior contents followed by what the call
\* appended, and a round never shortens or rewrites what is already there.
C12_AppendOnly ==
  [][pc = "loop" =>
       (/\ Len(buf') >= Len(buf) /\ SubSeq(buf', 1, Len(buf)) = buf
        /\ prior' = prior
        /\ Len(buf') >= Len(prior) /\ SubSeq(buf', 1, Len(prior)) = prior)]_vars

\* a call on a non-empty accumulator appended to it over two rounds
C12_Witness ==
  /\ pc = "idle" /\ ret.kind = "ok" /\ prior # <<>>
  /\ Len(buf) >= Len(prior) + 2 /\ SubSeq(buf, 1, Len(prior)) = prior
  /\ SpansWindows

\* C13: the bytes a call appends to the accumulator contain neither "\n"
\* nor "\r", under every partition; so neither does any item of LinesIter.
C13_NoTerminatorInLine ==
  /\ \A i \in 1..Len(Appended) : ~IsTerm(Appended[i])
  /\ \A i \in 1..Len(item.line) : ~IsTerm(item.line[i])

\* a line cut off by a bare "\r" that a later "\n" follows in the window
C13_Witness ==
  /\ pc = "idle" /\ ret.kind = "ok" /\ Appended # <<>>
  /\ ret.count = Len(Appended) + 1
  /\ input[pos] = CR /\ \E i \in (pos + 2)..wend : input[i] = NL

\* C14: the count of a successful call is the number of bytes the call
\* consumed from the source over all its rounds, and is the number of bytes
\* it appended plus the terminator bytes it consumed: 1 or 2 of them, which
\* are the boundary it found, and none only when it stopped at end-of-stream.
C14_CountIsPayloadPlusTerminator ==
  (pc = "idle" /\ ncalls > 0 /\ ret.kind = "ok") =>
    LET t == ret.count - Len(Appended) IN
    /\ ret.count = pos - start
    /\ t \in {0, 1, 2}
    /\ t = 1 => IsTerm(input[pos])
    /\ t = 2 => (input[pos - 1] = CR /\ input[pos] = NL)
    /\ t = 0 => (eof /\ pos = Len(input))

\* the window a round of the scan is about to be shown holds more than one
\* byte, no "\n", and its first "\r" as its last byte
CrEndsWindow ==
  /\ pc = "loop"
  /\ Len(Available) > 1
  /\ memchr(NL, Available) = None
  /\ memchr(CR, Available) = Some(Len(Available) - 1)

\* C15: a round on such a window appends all bytes before the "\r", consumes
\* exactly those window length - 1 bytes and does not stop; the next round
\* starts with the "\r" as the first unconsumed byte of the source.
C15_RefetchKeepsOnlyCr ==
  [][(CrEndsWindow /\ interrupts' = interrupts /\ nerrs' = nerrs) =>
       (/\ buf' = buf \o Prefix(Available, Len(Available) - 1)
        /\ pos' = pos + Len(Available) - 1
        /\ read' = read + Len(Available) - 1
        /\ pc' = "loop"
        /\ input[pos' + 1] = CR)]_vars

\* C16: the (line, count) results of successive calls do not depend on the
\* partition into refill windows: under any partition the k-th call returns
\* what the k-th call returns when the whole input is one window, hence the
\* same under any two partitions.
C16_PartitionIndependent ==
  CleanReturn =>
    LET one == NthLineIn({Len(input)} \ {0}, input, 0, 0, ncalls)
    IN buf = one.buf /\ ret.count = one.count

\* C17: with fetches Interrupted only finitely often, every call of
\* read_line_u8 returns, for every finite input and partition: a round
\* either returns (boundary found, or 0 bytes consumed) or strictly advances
\* the source; an Interrupted fetch never returns the call and moves
\* nothing, so a fetch Interrupted for ever keeps the call in its loop.
C17_CallTerminates ==
  /\ (pc = "loop") ~> (pc = "idle")
  /\ [][(pc = "loop" /\ pc' = "loop" /\ interrupts' = interrupts) =>
          (pos' > pos /\ pos' <= Len(input))]_vars
  /\ [][(pc = "loop" /\ interrupts' # interrupts) =>
          (pc' = "loop" /\ UNCHANGED <<pos, wend, read, buf, ncalls>>)]_vars

\* a call returned after three rounds and an Interrupted fetch
C17_Witness ==
  /\ pc = "idle" /\ ret.kind = "ok" /\ interrupts > 0
  /\ Cardinality({c \in cuts : start < c /\ c < pos}) >= 2

\* C18: for every window the source can show, no index subtraction of the
\* match underflows (nl_idx >= 1 wherever nl_idx - 1 is evaluated, cr_idx >= 1
\* wherever cr_idx - 1 is evaluated), and the amount consumed and the bytes
\* appended stay within the window.
C18_NoUnderflow ==
  LET r == Round(Available) IN
  /\ \A s \in Subtractions(Available) : s[1] >= s[2]
  /\ 0 <= r.used /\ r.used <= Len(Available)
  /\ Len(r.app) <= Len(Available)

\* a round is shown a two-byte window ending in its first "\r": cr_idx - 1
\* is evaluated with cr_idx = 1
C18_Witness ==
  /\ CrEndsWindow /\ Len(Available) = 2
  /\ <<1, 1>> \in Subtractions(Available)

\* a round is shown a window starting with "\r\n": nl_idx - 1 is evaluated
\* with nl_idx = 1
C18_WitnessNl ==
  /\ pc = "loop" /\ Len(Available) >= 2
  /\ Available[1] = CR /\ Available[2] = NL
  /\ <<1, 1>> \in Subtractions(Available)

====
